---- MODULE Spec2Model ----
(***************************************************************************)
(* Grouping and reader-rotation engine of the reading-group scheduler.     *)
(*                                                                         *)
(* Three generations of lib/grouping.ts are modelled side by side:         *)
(*   - the weekly-state engine with confirmed-first rotation               *)
(*     (assignReadersForGroup, getUpNext, makeGroups);                     *)
(*   - the later roster/window engine (takeWithWrap, splitScheduledBonus,  *)
(*     buildReaderRoster, makeGroupsRosters);                              *)
(*   - the first has_reading engine (assignReadersForGroupLib,             *)
(*     makeGroupsLib).                                                     *)
(* Around the engine, the admin page's seating view, the participant       *)
(* PATCH route, the current-cycle GET route and the admin login/logout     *)
(* routes each have a specification of their own.                          *)
(* Strings that the code inspects character by character (names) are       *)
(* sequences of UTF-16 code units; JavaScript null and undefined are the   *)
(* values Null and Undefined.                                              *)
(***************************************************************************)
EXTENDS Integers, Sequences, FiniteSets, TLC

VARIABLES
    participants,   \* the Participant[] handed to the operation under study
    rotation,       \* the start index / RotationState handed to it
    op,             \* name of the operation applied last ("none" before any)
    ret,            \* what that operation returned
    cycle,          \* number of cycles completed (rotation specifications)
    tally           \* per participant id: times placed in scheduled so far

vars == <<participants, rotation, op, ret, cycle, tally>>

----------------------------------------------------------------------------
(* Bounds of the model *)

MaxPeople == 5          \* largest group with every combination of member profiles
NegStart == 1           \* start indices down to -NegStart are tried
MaxStart == 8           \* largest start index tried
MaxCount == 8           \* largest count handed to takeWithWrap
MaxCycles == 6          \* cycles followed by the rotation specifications
FreeRounds == 3         \* rounds of a shuffle in which every draw is tried
AppCycles == 3          \* cycles of the application followed
MaxMixed == 3           \* largest seated roster with every combination of weekly states
MaxSort == 3            \* longest arrangement handed to the sort
MaxRequests == 2        \* requests the PATCH route handles in one behaviour
MaxGets == 3            \* requests for the current cycle in one behaviour
MaxDays == 8            \* days the clock of the cycles route runs over
MaxSession == 4         \* login and logout requests of one browser

(* Program constants *)

SCHEDULED_QUOTA == 4
BONUS_QUOTA == 2
READERS_PER_WEEK == SCHEDULED_QUOTA + BONUS_QUOTA
SingleGroupMax == 8
MinReaders == 4

----------------------------------------------------------------------------
(* JavaScript values and operators *)

\* null and undefined where a string is expected
Null == "null"
Undefined == "undefined"

\* null and undefined where an object (a Participant, a RotationState) is expected
NullObj == [null |-> TRUE]
UndefinedObj == [undefined |-> TRUE]

\* a ?? b on a string-valued field
Coalesce(a, b) == IF a = Null \/ a = Undefined THEN b ELSE a

\* the remainder of the magnitude, the sign dropped
JsRem_abs(a, n) == (IF a >= 0 THEN a ELSE 0 - a) % n

\* a % n of JavaScript: the remainder takes the sign of the dividend
JsRem(a, n) == IF a >= 0 THEN a % n ELSE 0 - ((0 - a) % n)

Min(a, b) == IF a <= b THEN a ELSE b
Max(a, b) == IF a >= b THEN a ELSE b

Range(s) == {s[k] : k \in 1..Len(s)}

\* the ids of a list of participants, as a list and as a set
IdsOf(s) == [k \in 1..Len(s) |-> s[k].id]
NoRepeat(s) == \A a, b \in 1..Len(s) : a # b => s[a] # s[b]
IdSet(s) == {s[k].id : k \in 1..Len(s)}

\* Array.prototype.slice(from, to) with 0-based, end-exclusive indices
Slice(s, from, to) == SubSeq(s, from + 1, Min(to, Len(s)))

\* Array.prototype.reverse
Reverse(s) == [k \in 1..Len(s) |-> s[Len(s) + 1 - k]]

\* Array.prototype.findIndex for "element with this id": 0-based, -1 if none
FindIndexById(s, id) ==
    IF \E k \in 1..Len(s) : s[k].id = id
    THEN (CHOOSE k \in 1..Len(s) :
              s[k].id = id /\ \A m \in 1..(k - 1) : s[m].id # id) - 1
    ELSE -1

----------------------------------------------------------------------------
(* Strings as sequences of code units *)

SPACE == 32

IsUpper(c) == c >= 65 /\ c <= 90

\* String.prototype.toLowerCase on the ASCII letters the rosters use
toLowerCase(s) == [k \in 1..Len(s) |-> IF IsUpper(s[k]) THEN s[k] + 32 ELSE s[k]]

RECURSIVE TrimStart(_)
TrimStart(s) ==
    IF s # <<>> /\ Head(s) = SPACE THEN TrimStart(Tail(s)) ELSE s

\* String.prototype.trim
trim(s) == Reverse(TrimStart(Reverse(TrimStart(s))))

\* first piece of s.split(/\s+/) for a trimmed, non-empty s
RECURSIVE FirstToken(_)
FirstToken(s) ==
    IF s = <<>> \/ Head(s) = SPACE THEN <<>> ELSE <<Head(s)>> \o FirstToken(Tail(s))

\* a < b on strings: lexicographic on code units, a proper prefix is smaller
RECURSIVE StrLess(_, _)
StrLess(a, b) ==
    IF b = <<>> THEN FALSE
    ELSE IF a = <<>> THEN TRUE
    ELSE IF Head(a) # Head(b) THEN Head(a) < Head(b)
    ELSE StrLess(Tail(a), Tail(b))

----------------------------------------------------------------------------
(* The people of the model: ids 1..10 with fixed names *)

NameOf == <<
    <<68, 97, 118, 101, 32, 70, 111, 120>>,            \* 1  "Dave Fox"
    <<98, 111, 98>>,                                   \* 2  "bob"
    <<65, 108, 105, 99, 101, 32, 32, 82, 97, 121>>,    \* 3  "Alice  Ray"
    <<66, 111, 98>>,                                   \* 4  "Bob"
    <<101, 118, 101>>,                                 \* 5  "eve"
    <<67, 97, 114, 111, 108>>,                         \* 6  "Carol"
    <<98, 111, 98, 32, 97>>,                           \* 7  "bob a"
    <<97, 108, 105, 99, 101>>,                         \* 8  "alice"
    <<90, 101, 100>>,                                  \* 9  "Zed"
    <<89, 97, 110>> >>                                 \* 10 "Yan"

AttendanceStatus == {"unknown", "yes", "no", "maybe"}
ReadingStatus == {"unassigned", "pending", "confirmed", "deferred"}

Participant(i, att, rd, hr, dtw) ==
    [id |-> i, name |-> NameOf[i], attendance |-> att, reading |-> rd,
     has_reading |-> hr, deferred_this_week |-> dtw]

----------------------------------------------------------------------------
(* Roster filters of the weekly-state engine *)

getFirstName(name) ==
    LET trimmed == trim(name)
    IN  IF trimmed = <<>> THEN <<>> ELSE FirstToken(trimmed)

\* the comparator without its final tie-break on id
sortByFirstName_noId(a, b) ==
    LET aFirst == toLowerCase(getFirstName(a.name))
        bFirst == toLowerCase(getFirstName(b.name))
        aFull == toLowerCase(a.name)
        bFull == toLowerCase(b.name)
    IN  IF StrLess(aFirst, bFirst) THEN -1
        ELSE IF StrLess(bFirst, aFirst) THEN 1
        ELSE IF StrLess(aFull, bFull) THEN -1
        ELSE IF StrLess(bFull, aFull) THEN 1
        ELSE 0

sortByFirstName(a, b) ==
    LET aFirst == toLowerCase(getFirstName(a.name))
        bFirst == toLowerCase(getFirstName(b.name))
        aFull == toLowerCase(a.name)
        bFull == toLowerCase(b.name)
    IN  IF StrLess(aFirst, bFirst) THEN -1
        ELSE IF StrLess(bFirst, aFirst) THEN 1
        ELSE IF StrLess(aFull, bFull) THEN -1
        ELSE IF StrLess(bFull, aFull) THEN 1
        ELSE a.id - b.id

\* sortByFirstName on the people of the model, tabulated once per pair of ids
\* (a person's name is NameOf of the id, and the comparator reads nothing else)
PersonIds == 1..Len(NameOf)
SortOrder ==
    [i \in PersonIds |-> [j \in PersonIds |->
        sortByFirstName([id |-> i, name |-> NameOf[i]], [id |-> j, name |-> NameOf[j]])]]

\* Array.prototype.sort(sortByFirstName): a stable insertion sort driven by the
\* comparator (an element moves in front of another only when it compares < 0)
RECURSIVE InsertSorted(_, _)
InsertSorted(x, s) ==
    IF s = <<>> THEN <<x>>
    ELSE IF SortOrder[x.id][Head(s).id] < 0 THEN <<x>> \o s
    ELSE <<Head(s)>> \o InsertSorted(x, Tail(s))

RECURSIVE SortParticipants(_)
SortParticipants(s) ==
    IF s = <<>> THEN <<>>
    ELSE InsertSorted(s[Len(s)], SortParticipants(SubSeq(s, 1, Len(s) - 1)))

\* the stricter rule: attending only after an explicit yes
isAttending_yesOnly(p) == Coalesce(p.attendance, "unknown") = "yes"

\* seated unless explicitly 'no'
isAttending(p) == Coalesce(p.attendance, "unknown") # "no"

readingStatus(p) == Coalesce(p.reading, "unassigned")

\* the filter with the 'deferred' test forgotten
isSchedulableThisWeek_attendingOnly(p) == isAttending(p)

isSchedulableThisWeek(p) ==
    IF ~isAttending(p) THEN FALSE ELSE readingStatus(p) # "deferred"

IsPending(p) == readingStatus(p) = "pending"
IsConfirmed(p) == readingStatus(p) = "confirmed"
\* the test that lets confirmed members through
NotConfirmed_any(p) == TRUE

NotConfirmed(p) == readingStatus(p) # "confirmed"

\* Array.prototype.find, given the elements that pass its test in array order:
\* the first of them, else undefined
Find(hits) == IF hits = <<>> THEN UndefinedObj ELSE hits[1]

getUpNext(groupMembers) ==
    LET attendingMembers == SelectSeq(groupMembers, isAttending)
        pending == Find(SelectSeq(attendingMembers, IsPending))
        sorted == SortParticipants(SelectSeq(SelectSeq(attendingMembers,
                                       isSchedulableThisWeek), NotConfirmed))
    IN  IF pending # UndefinedObj THEN pending
        ELSE IF sorted = <<>> THEN NullObj ELSE sorted[1]

----------------------------------------------------------------------------
(* Reader rotation of the weekly-state engine *)

\* the closure without its picked.has test
takeNextNotConfirmed_noPicked(notConfirmed, st, scan) ==
    LET n == Len(notConfirmed)
    IN  [p |-> notConfirmed[st.i + 1], i |-> (st.i + 1) % n, picked |-> st.picked]

\* the closure walking the list backwards
takeNextNotConfirmed_backwards(notConfirmed, st, scan) ==
    LET n == Len(notConfirmed)
        p == notConfirmed[st.i + 1]
    IN  IF p.id \in st.picked THEN [p |-> NullObj, i |-> st.i, picked |-> st.picked]
        ELSE [p |-> p, i |-> (st.i + n - 1) % n, picked |-> st.picked \cup {p.id}]

\* The closure takeNextNotConfirmed: st carries the captured i and picked
RECURSIVE takeNextNotConfirmed(_, _, _)
takeNextNotConfirmed(notConfirmed, st, scan) ==
    LET n == Len(notConfirmed)
        p == notConfirmed[st.i + 1]
        i2 == (st.i + 1) % n
    IN  IF scan >= n THEN [p |-> NullObj, i |-> st.i, picked |-> st.picked]
        ELSE IF p.id \in st.picked
             THEN takeNextNotConfirmed(notConfirmed, [i |-> i2, picked |-> st.picked],
                                       scan + 1)
             ELSE [p |-> p, i |-> i2, picked |-> st.picked \cup {p.id}]

\* while (list.length < quota) { p = takeNextNotConfirmed(); if (!p) break; push }
RECURSIVE FillSlots(_, _, _, _)
FillSlots(list, quota, notConfirmed, st) ==
    IF Len(list) >= quota THEN [list |-> list, st |-> st]
    ELSE LET r == takeNextNotConfirmed(notConfirmed, st, 0)
         IN  IF r.p = NullObj THEN [list |-> list, st |-> [i |-> r.i, picked |-> r.picked]]
             ELSE FillSlots(Append(list, r.p), quota, notConfirmed,
                            [i |-> r.i, picked |-> r.picked])

\* for (const p of confirmed) { if (scheduled.length >= quota) break; push }
\* the confirmed loop without its quota test
ConfirmedFirst_all(confirmed, scheduledQuota) == confirmed

ConfirmedFirst(confirmed, scheduledQuota) ==
    SubSeq(confirmed, 1, Min(Len(confirmed), Max(scheduledQuota, 0)))

\* the cursor placed on the last scheduled person instead of after it
NextStartIndex_onLast(scheduled, notConfirmed, startIndex) ==
    LET n == Len(notConfirmed)
        lastFromRotation == Find(SelectSeq(Reverse(scheduled), NotConfirmed))
        lastIdx == FindIndexById(notConfirmed, lastFromRotation.id)
    IN  IF lastFromRotation = UndefinedObj THEN startIndex
        ELSE IF lastIdx = -1 THEN startIndex ELSE lastIdx % n

\* the cursor computed at the end of assignReadersForGroup
NextStartIndex(scheduled, notConfirmed, startIndex) ==
    LET n == Len(notConfirmed)
        lastFromRotation == Find(SelectSeq(Reverse(scheduled), NotConfirmed))
        lastIdx == FindIndexById(notConfirmed, lastFromRotation.id)
    IN  IF lastFromRotation = UndefinedObj THEN startIndex
        ELSE IF lastIdx = -1 THEN startIndex ELSE (lastIdx + 1) % n

assignReadersForGroup(groupMembers, startIndex, scheduledQuota, bonusQuota) ==
    LET roster == SortParticipants(SelectSeq(groupMembers, isSchedulableThisWeek))
        confirmed == SelectSeq(roster, IsConfirmed)
        notConfirmed == SelectSeq(roster, NotConfirmed)
        first == ConfirmedFirst(confirmed, scheduledQuota)
        n == Len(notConfirmed)
        i0 == JsRem(JsRem(startIndex, n) + n, n)
        st0 == [i |-> i0, picked |-> {first[k].id : k \in 1..Len(first)}]
        sch == FillSlots(first, scheduledQuota, notConfirmed, st0)
        bon == FillSlots(<<>>, bonusQuota, notConfirmed, sch.st)
    IN  IF n = 0
        THEN [readers |-> [scheduled |-> first, bonus |-> <<>>], nextStartIndex |-> 0]
        ELSE [readers |-> [scheduled |-> sch.list, bonus |-> bon.list],
              nextStartIndex |-> NextStartIndex(sch.list, notConfirmed, startIndex)]

----------------------------------------------------------------------------
(* The roster/window engine *)

\* values outside the enum taken as 'deferred'
readingStatusRosters_strict(p) ==
    LET v == Coalesce(p.reading, "unassigned")
    IN  IF v \in ReadingStatus THEN v ELSE "deferred"

\* readingStatus of this engine: values outside the enum become 'unassigned'
readingStatusRosters(p) ==
    LET v == Coalesce(p.reading, "unassigned")
    IN  IF v \in ReadingStatus THEN v ELSE "unassigned"

isSchedulableThisWeekRosters(p) ==
    IF ~isAttending(p) THEN FALSE ELSE readingStatusRosters(p) # "deferred"

\* the loop without its out.length < n bound
RECURSIVE TakeLoop_noCap(_, _, _, _, _)
TakeLoop_noCap(list, start, count, i, out) ==
    IF i < count
    THEN TakeLoop_noCap(list, start, count, i + 1,
                        Append(out, list[((start + i) % Len(list)) + 1]))
    ELSE out

\* for (i = 0; i < count && out.length < n; i++) out.push(list[(start + i) % n])
RECURSIVE TakeLoop(_, _, _, _, _)
TakeLoop(list, start, count, i, out) ==
    IF i < count /\ Len(out) < Len(list)
    THEN TakeLoop(list, start, count, i + 1,
                  Append(out, list[((start + i) % Len(list)) + 1]))
    ELSE out

takeWithWrap(list, startIndex, count) ==
    LET n == Len(list)
    IN  IF n = 0 \/ count <= 0 THEN <<>>
        ELSE TakeLoop(list, JsRem(JsRem(startIndex, n) + n, n), count, 0, <<>>)

\* the copy of takeWithWrap in the admin page
takeWithWrapAdmin(list, startIndex, count) ==
    LET n == Len(list)
    IN  IF n = 0 \/ count <= 0 THEN <<>>
        ELSE TakeLoop(list, JsRem(JsRem(startIndex, n) + n, n), count, 0, <<>>)

splitScheduledBonus(picked) ==
    [scheduled |-> Slice(picked, 0, SCHEDULED_QUOTA),
     bonus |-> Slice(picked, SCHEDULED_QUOTA, SCHEDULED_QUOTA + BONUS_QUOTA)]

buildReaderRoster(groupMembers) ==
    SortParticipants(SelectSeq(groupMembers, isSchedulableThisWeekRosters))

\* the readers makeGroups returns for one group: the first READERS_PER_WEEK of
\* the group's roster from the start index, split into scheduled and bonus
readersThisWeek(groupMembers, startIndex) ==
    splitScheduledBonus(takeWithWrap(buildReaderRoster(groupMembers), startIndex,
                                     READERS_PER_WEEK))

IsPendingRosters(p) == readingStatusRosters(p) = "pending"
NotConfirmedRosters(p) == readingStatusRosters(p) # "confirmed"

getUpNextRosters(groupMembers) ==
    LET attendingMembers == SelectSeq(groupMembers, isAttending)
        pending == Find(SelectSeq(attendingMembers, IsPendingRosters))
        sorted == SortParticipants(SelectSeq(SelectSeq(attendingMembers,
                      isSchedulableThisWeekRosters), NotConfirmedRosters))
    IN  IF pending # UndefinedObj THEN pending
        ELSE IF sorted = <<>> THEN NullObj ELSE sorted[1]

----------------------------------------------------------------------------
(* The first engine: has_reading and deferred_this_week *)

HasReading(p) == p.has_reading

RECURSIVE takeNextNonDeferred(_, _, _)
takeNextNonDeferred(eligible, st, scan) ==
    LET n == Len(eligible)
        p == eligible[st.i + 1]
        i2 == (st.i + 1) % n
    IN  IF scan >= n THEN [p |-> NullObj, i |-> st.i, picked |-> st.picked]
        ELSE IF p.id \in st.picked \/ p.deferred_this_week
             THEN takeNextNonDeferred(eligible, [i |-> i2, picked |-> st.picked],
                                      scan + 1)
             ELSE [p |-> p, i |-> i2, picked |-> st.picked \cup {p.id}]

RECURSIVE FillSlotsLib(_, _, _, _)
FillSlotsLib(list, quota, eligible, st) ==
    IF Len(list) >= quota THEN [list |-> list, st |-> st]
    ELSE LET r == takeNextNonDeferred(eligible, st, 0)
         IN  IF r.p = NullObj THEN [list |-> list, st |-> [i |-> r.i, picked |-> r.picked]]
             ELSE FillSlotsLib(Append(list, r.p), quota, eligible,
                               [i |-> r.i, picked |-> r.picked])

assignReadersForGroupLib(groupMembers, startIndex, scheduledQuota, bonusQuota) ==
    LET eligible == SortParticipants(SelectSeq(groupMembers, HasReading))
        n == Len(eligible)
        i0 == JsRem(JsRem(startIndex, n) + n, n)
        sch == FillSlotsLib(<<>>, scheduledQuota, eligible, [i |-> i0, picked |-> {}])
        bon == FillSlotsLib(<<>>, bonusQuota, eligible, sch.st)
        lastIdx == FindIndexById(eligible, sch.list[Len(sch.list)].id)
    IN  IF n = 0
        THEN [readers |-> [scheduled |-> <<>>, bonus |-> <<>>], nextStartIndex |-> 0]
        ELSE [readers |-> [scheduled |-> sch.list, bonus |-> bon.list],
              nextStartIndex |->
                  IF sch.list = <<>> THEN startIndex
                  ELSE IF lastIdx = -1 THEN startIndex ELSE (lastIdx + 1) % n]

----------------------------------------------------------------------------
(* Seating: shuffle and the alternating deal *)

\* The values of j the model draws in round i of the shuffle of n elements:
\* every value Math.random can give, 0..i, in the first FreeRounds rounds
\* (i = n - 1 downwards); in the later rounds j = i, the draw that leaves the
\* element where it is.  Rounds that do not happen have the dummy draw 0.
DrawSet(i, n) ==
    IF i >= n THEN {0}
    ELSE IF i >= n - FreeRounds THEN 0..i ELSE {i}

\* All the draws of one shuffle of an array of n <= 10 elements: js[i] is the j
\* drawn in round i
Draws(n) ==
    DrawSet(1, n) \X DrawSet(2, n) \X DrawSet(3, n) \X DrawSet(4, n) \X DrawSet(5, n)
        \X DrawSet(6, n) \X DrawSet(7, n) \X DrawSet(8, n) \X DrawSet(9, n)

\* the exchange that writes only one of the two slots
Swap_overwrite(copy, i, j) ==
    [k \in 1..Len(copy) |-> IF k = i + 1 THEN copy[j + 1] ELSE copy[k]]

Swap(copy, i, j) ==
    [k \in 1..Len(copy) |-> IF k = i + 1 THEN copy[j + 1]
                            ELSE IF k = j + 1 THEN copy[i + 1] ELSE copy[k]]

\* for (i = copy.length - 1; i > 0; i--) swap copy[i], copy[js[i]]
RECURSIVE ShuffleFrom(_, _, _)
ShuffleFrom(copy, i, js) ==
    IF i > 0 THEN ShuffleFrom(Swap(copy, i, js[i]), i - 1, js) ELSE copy

shuffle(arr, js) == ShuffleFrom(arr, Len(arr) - 1, js)

\* the deal with its comparison turned round (>= for <=)
RECURSIVE Deal_turned(_, _, _)
Deal_turned(rest, lounge, table) ==
    IF rest = <<>> THEN [lounge |-> lounge, table |-> table]
    ELSE IF Len(lounge) >= Len(table)
         THEN Deal_turned(Tail(rest), Append(lounge, Head(rest)), table)
         ELSE Deal_turned(Tail(rest), lounge, Append(table, Head(rest)))

\* for (const p of shuffled) if (lounge.length <= table.length) lounge.push(p)
\*                           else table.push(p)
RECURSIVE Deal(_, _, _)
Deal(rest, lounge, table) ==
    IF rest = <<>> THEN [lounge |-> lounge, table |-> table]
    ELSE IF Len(lounge) <= Len(table)
         THEN Deal(Tail(rest), Append(lounge, Head(rest)), table)
         ELSE Deal(Tail(rest), lounge, Append(table, Head(rest)))

\* the reader lists left unset
NoReaders_unset == UndefinedObj

NoReaders == [scheduled |-> <<>>, bonus |-> <<>>]

\* rotation?.tableStartIndex ?? 0 and rotation?.loungeStartIndex ?? 0
TableStart(rot) == IF rot = UndefinedObj THEN 0 ELSE rot.tableStartIndex
LoungeStart(rot) == IF rot = UndefinedObj THEN 0 ELSE rot.loungeStartIndex

----------------------------------------------------------------------------
(* makeGroups of the three engines; js, js2, js3 are the draws of its shuffles *)

makeGroups(people, rot, js) ==
    LET seated == SelectSeq(people, isAttending)
        total == Len(seated)
        shuffled == shuffle(seated, js)
        split == Deal(shuffled, <<>>, <<>>)
    IN  IF total = 0
        THEN [table |-> <<>>, lounge |-> <<>>, error |-> "No attendees for this week.",
              readers |-> [table |-> NoReaders, lounge |-> NoReaders],
              upNext |-> [table |-> NullObj, lounge |-> NullObj]]
        ELSE IF total <= SingleGroupMax
        THEN [table |-> shuffled, lounge |-> <<>>, error |-> Undefined,
              readers |-> [table |-> assignReadersForGroup(shuffled, TableStart(rot),
                                         4, 2).readers,
                           lounge |-> NoReaders],
              upNext |-> [table |-> getUpNext(shuffled), lounge |-> NullObj]]
        ELSE [table |-> split.table, lounge |-> split.lounge, error |-> Undefined,
              readers |-> [table |-> assignReadersForGroup(split.table, TableStart(rot),
                                         4, 2).readers,
                           lounge |-> assignReadersForGroup(split.lounge,
                                         LoungeStart(rot), 4, 2).readers],
              upNext |-> [table |-> getUpNext(split.table),
                          lounge |-> getUpNext(split.lounge)]]

makeGroupsRosters(people, rot, js) ==
    LET seated == SelectSeq(people, isAttending)
        total == Len(seated)
        shuffled == shuffle(seated, js)
        split == Deal(shuffled, <<>>, <<>>)
        startIndex == [tableStartIndex |-> TableStart(rot),
                       loungeStartIndex |-> LoungeStart(rot)]
        oneRoster == buildReaderRoster(shuffled)
        tableRoster == buildReaderRoster(split.table)
        loungeRoster == buildReaderRoster(split.lounge)
    IN  IF total = 0
        THEN [table |-> <<>>, lounge |-> <<>>, error |-> "No attendees for this week.",
              readers |-> [table |-> NoReaders, lounge |-> NoReaders],
              rosters |-> [table |-> <<>>, lounge |-> <<>>, startIndex |-> startIndex],
              upNext |-> [table |-> NullObj, lounge |-> NullObj]]
        ELSE IF total <= SingleGroupMax
        THEN [table |-> shuffled, lounge |-> <<>>, error |-> Undefined,
              readers |-> [table |-> readersThisWeek(shuffled, TableStart(rot)),
                           lounge |-> NoReaders],
              rosters |-> [table |-> oneRoster, lounge |-> <<>>,
                           startIndex |-> startIndex],
              upNext |-> [table |-> getUpNextRosters(shuffled), lounge |-> NullObj]]
        ELSE [table |-> split.table, lounge |-> split.lounge, error |-> Undefined,
              readers |-> [table |-> readersThisWeek(split.table, TableStart(rot)),
                           lounge |-> readersThisWeek(split.lounge, LoungeStart(rot))],
              rosters |-> [table |-> tableRoster, lounge |-> loungeRoster,
                           startIndex |-> startIndex],
              upNext |-> [table |-> getUpNextRosters(split.table),
                          lounge |-> getUpNextRosters(split.lounge)]]

NoReading(p) == ~p.has_reading

\* the seeding with three readers for the lounge and one for the table
Seed_lopsided(shuffledReaders) ==
    [lounge |-> <<shuffledReaders[1], shuffledReaders[2], shuffledReaders[3]>>,
     table |-> <<shuffledReaders[4]>>]

\* lounge.push(shuffledReaders[0], shuffledReaders[1])
\* table.push(shuffledReaders[2], shuffledReaders[3])
Seed(shuffledReaders) ==
    [lounge |-> <<shuffledReaders[1], shuffledReaders[2]>>,
     table |-> <<shuffledReaders[3], shuffledReaders[4]>>]

makeGroupsLib(people, rot, js, js2, js3) ==
    LET total == Len(people)
        readers == SelectSeq(people, HasReading)
        nonReaders == SelectSeq(people, NoReading)
        all == shuffle(people, js)
        shuffledReaders == shuffle(readers, js)
        shuffledNonReaders == shuffle(nonReaders, js2)
        remaining == shuffle(Slice(shuffledReaders, 4, Len(shuffledReaders))
                             \o shuffledNonReaders, js3)
        seeded == Seed(shuffledReaders)
        split == Deal(remaining, seeded.lounge, seeded.table)
    IN  IF total <= SingleGroupMax
        THEN [table |-> all, lounge |-> <<>>, error |-> Undefined,
              readers |-> [table |-> assignReadersForGroupLib(all, TableStart(rot),
                                         4, 2).readers,
                           lounge |-> NoReaders]]
        ELSE IF Len(readers) < MinReaders
        THEN [table |-> all, lounge |-> <<>>,
              error |-> "Not enough readers to have at least 2 in each group.",
              readers |-> [table |-> assignReadersForGroupLib(all, TableStart(rot),
                                         4, 2).readers,
                           lounge |-> NoReaders]]
        ELSE [table |-> split.table, lounge |-> split.lounge, error |-> Undefined,
              readers |-> [table |-> assignReadersForGroupLib(split.table,
                                         TableStart(rot), 4, 2).readers,
                           lounge |-> assignReadersForGroupLib(split.lounge,
                                         LoungeStart(rot), 4, 2).readers]]

----------------------------------------------------------------------------
(* Specification Spec: the per-group operations on one group roster.        *)
(* The group is fixed by Init (who is in it, each member's weekly state or  *)
(* has_reading flags, the start index); every action applies one operation  *)
(* of one engine to it and records what it returned.                        *)

StartIndices == (0 - NegStart)..MaxStart

\* What one member can look like.  The weekly-state engines read only
\* attendance and reading, the first engine reads only has_reading and
\* deferred_this_week, so four profiles give every engine every combination of
\* the fields it reads.
Profiles ==
    {[reading |-> "unassigned", has_reading |-> TRUE, deferred_this_week |-> FALSE],
     [reading |-> "pending", has_reading |-> TRUE, deferred_this_week |-> TRUE],
     [reading |-> "confirmed", has_reading |-> FALSE, deferred_this_week |-> FALSE],
     [reading |-> "deferred", has_reading |-> FALSE, deferred_this_week |-> TRUE]}

\* groups of 1..MaxPeople attending members, every combination of profiles
ProfileGroups ==
    UNION {{[i \in 1..k |-> Participant(i, "yes", pf[i].reading, pf[i].has_reading,
                                         pf[i].deferred_this_week)] :
                pf \in [1..k -> Profiles]} : k \in 1..MaxPeople}

\* larger groups, up to MaxPeople + 2 members, each unassigned (has_reading)
\* or confirmed (no has_reading)
LargeGroups ==
    UNION {{[i \in 1..k |-> IF c[i] THEN Participant(i, "yes", "confirmed", FALSE, FALSE)
                            ELSE Participant(i, "yes", "unassigned", TRUE, FALSE)] :
                c \in [1..k -> BOOLEAN]} : k \in (MaxPeople + 1)..(MaxPeople + 2)}

\* the roster of the design's worked scenario, in the order the caller holds
\* it: Alice (unassigned), Bob (confirmed), Carol (deferred), Dave
\* (unassigned), Eve (pending), all attending
ScenarioRoster ==
    <<Participant(3, "yes", "unassigned", FALSE, FALSE),
      Participant(4, "yes", "confirmed", FALSE, FALSE),
      Participant(6, "yes", "deferred", FALSE, FALSE),
      Participant(1, "yes", "unassigned", FALSE, FALSE),
      Participant(5, "yes", "pending", FALSE, FALSE)>>

Groups == ProfileGroups \cup LargeGroups \cup {ScenarioRoster}

Init ==
    /\ participants \in Groups
    /\ rotation \in StartIndices
    /\ op = "none"
    /\ ret = <<>>
    /\ cycle = 0
    /\ tally = <<>>

Frame == UNCHANGED <<participants, rotation, cycle, tally>>

AssignReaders ==
    /\ op = "none"
    /\ op' = "assignReadersForGroup"
    /\ ret' = assignReadersForGroup(participants, rotation, 4, 2)
    /\ Frame

UpNext ==
    /\ op = "none"
    /\ op' = "getUpNext"
    /\ ret' = getUpNext(participants)
    /\ Frame

ReadersThisWeek ==
    /\ op = "none"
    /\ op' = "readersThisWeek"
    /\ ret' = readersThisWeek(participants, rotation)
    /\ Frame

AssignReadersLib ==
    /\ op = "none"
    /\ op' = "assignReadersForGroupLib"
    /\ ret' = assignReadersForGroupLib(participants, rotation, 4, 2)
    /\ Frame

Next == AssignReaders \/ UpNext \/ ReadersThisWeek \/ AssignReadersLib

Spec == Init /\ [][Next]_vars

----------------------------------------------------------------------------
(* Specification SpecWrap: takeWithWrap on the reader roster of a group of  *)
(* 0..MaxPeople + 2 members, for every start index and every count.         *)

Counts == -1..MaxCount

PlainGroups ==
    {[i \in 1..k |-> Participant(i, "yes", "unassigned", TRUE, FALSE)] :
         k \in 0..(MaxPeople + 2)}

InitWrap ==
    /\ participants \in PlainGroups
    /\ rotation \in StartIndices
    /\ op = "none"
    /\ ret = <<>>
    /\ cycle = 0
    /\ tally = <<>>

TakeWithWrap ==
    /\ op = "none"
    /\ \E count \in Counts :
           ret' = [list |-> buildReaderRoster(participants), count |-> count,
                   out |-> takeWithWrap(buildReaderRoster(participants), rotation,
                                        count)]
    /\ op' = "takeWithWrap"
    /\ Frame

TakeWithWrapAdmin ==
    /\ op = "none"
    /\ \E count \in Counts :
           ret' = [list |-> buildReaderRoster(participants), count |-> count,
                   out |-> takeWithWrapAdmin(buildReaderRoster(participants),
                                             rotation, count)]
    /\ op' = "takeWithWrapAdmin"
    /\ Frame

NextWrap == TakeWithWrap \/ TakeWithWrapAdmin

SpecWrap == InitWrap /\ [][NextWrap]_vars

----------------------------------------------------------------------------
(* Specification SpecSplit: makeGroups on the smallest roster that is split *)
(* into two groups (SingleGroupMax + 1 attendees), under every outcome of   *)
(* the shuffles.                                                            *)

SplitSize == SingleGroupMax + 1

\* the weekly reading state of the nine attendees
SplitReading ==
    <<"pending", "unassigned", "pending", "confirmed", "deferred",
      "unassigned", "unassigned", "confirmed", "unassigned">>

\* the first r of them have has_reading, with r just below, at and just above
\* the number of readers the first engine asks for
SplitRosters ==
    {[i \in 1..SplitSize |-> Participant(i, "yes", SplitReading[i], i <= r, FALSE)] :
         r \in {MinReaders - 1, MinReaders, MinReaders + 1}}

SplitRotation == [tableStartIndex |-> 1, loungeStartIndex |-> 3]

InitSplit ==
    /\ participants \in SplitRosters
    /\ rotation = SplitRotation
    /\ op = "none"
    /\ ret = <<>>
    /\ cycle = 0
    /\ tally = <<>>

MakeGroups ==
    /\ op = "none"
    /\ \E js \in Draws(Len(SelectSeq(participants, isAttending))) :
           ret' = makeGroups(participants, rotation, js)
    /\ op' = "makeGroups"
    /\ Frame

MakeGroupsLib ==
    /\ op = "none"
    /\ LET r == Len(SelectSeq(participants, HasReading))
           n == Len(participants)
           split == n > SingleGroupMax /\ r >= MinReaders
       IN  \E js \in Draws(IF split THEN r ELSE n),
              js2 \in Draws(IF split THEN n - r ELSE 0),
              js3 \in Draws(IF split THEN n - 4 ELSE 0) :
               ret' = makeGroupsLib(participants, rotation, js, js2, js3)
    /\ op' = "makeGroupsLib"
    /\ Frame

NextSplit == MakeGroups \/ MakeGroupsLib

SpecSplit == InitSplit /\ [][NextSplit]_vars

----------------------------------------------------------------------------
(* Specification SpecRotation: the weekly-state rotation of one group over  *)
(* successive cycles, each cycle's nextStartIndex fed back as the next      *)
(* cycle's startIndex.  The roster and its statuses stay as Init chose      *)
(* them: nobody confirmed, at least one member schedulable.                 *)

RotationGroups ==
    {g \in Groups : /\ \A k \in 1..Len(g) : g[k].reading # "confirmed"
                    /\ \E k \in 1..Len(g) : isSchedulableThisWeek(g[k])}

InitRotation ==
    /\ participants \in RotationGroups
    /\ rotation \in StartIndices
    /\ op = "none"
    /\ ret = <<>>
    /\ cycle = 0
    /\ tally = [k \in 1..Len(participants) |-> 0]

Cycle ==
    /\ cycle < MaxCycles
    /\ LET r == assignReadersForGroup(participants, rotation, 4, 2)
       IN  /\ ret' = r
           /\ rotation' = r.nextStartIndex
           /\ tally' = [k \in 1..Len(participants) |->
                           IF k \in IdSet(r.readers.scheduled)
                           THEN tally[k] + 1 ELSE tally[k]]
    /\ op' = "assignReadersForGroup"
    /\ cycle' = cycle + 1
    /\ UNCHANGED participants

NextRotation == Cycle

SpecRotation == InitRotation /\ [][NextRotation]_vars

----------------------------------------------------------------------------
(* Specification SpecApp: the two pages over successive cycles.  Each page  *)
(* derives its groups from the cycle's roster with makeGroups(roster); the  *)
(* pages keep no rotation state, so the rotation argument is undefined.     *)
(* ret records what the page shows (the start index in use and the          *)
(* scheduled readers) next to what the previous cycle showed.               *)

\* String.prototype.localeCompare on the lower-case ASCII letters and spaces
\* of the keys: -1, 0 or 1 in code-unit order
localeCompare(a, b) == IF StrLess(a, b) THEN -1 ELSE IF StrLess(b, a) THEN 1 ELSE 0

firstNameKey(fullName) ==
    LET trimmed == toLowerCase(trim(fullName))
    IN  IF trimmed = <<>> THEN [first |-> <<>>, full |-> <<>>]
        ELSE [first |-> FirstToken(trimmed), full |-> trimmed]

\* the comparator of the admin page's sortByFirstName
compareAdmin(a, b) ==
    LET ka == firstNameKey(a.name)
        kb == firstNameKey(b.name)
        fullCmp == localeCompare(ka.full, kb.full)
    IN  IF ka.first # kb.first THEN localeCompare(ka.first, kb.first)
        ELSE IF fullCmp # 0 THEN fullCmp
        ELSE a.id - b.id

SortOrderAdmin ==
    [i \in PersonIds |-> [j \in PersonIds |->
        compareAdmin([id |-> i, name |-> NameOf[i]], [id |-> j, name |-> NameOf[j]])]]

RECURSIVE InsertSortedAdmin(_, _)
InsertSortedAdmin(x, s) ==
    IF s = <<>> THEN <<x>>
    ELSE IF SortOrderAdmin[x.id][Head(s).id] < 0 THEN <<x>> \o s
    ELSE <<Head(s)>> \o InsertSortedAdmin(x, Tail(s))

\* sortByFirstName(arr) of the admin page
RECURSIVE sortByFirstNameAdmin(_)
sortByFirstNameAdmin(arr) ==
    IF arr = <<>> THEN <<>>
    ELSE InsertSortedAdmin(arr[Len(arr)],
                           sortByFirstNameAdmin(SubSeq(arr, 1, Len(arr) - 1)))

\* the earlier rule of the page: everyone who did not say no
seatedParticipants_notNo(cycleParticipants) ==
    SelectSeq(cycleParticipants,
              LAMBDA person : Coalesce(person.attendance, "unknown") # "no")

seatedParticipants(cycleParticipants) ==
    SelectSeq(cycleParticipants,
              LAMBDA person : Coalesce(person.attendance, "unknown") = "yes")

readerSchedule(groups) ==
    LET combined == sortByFirstNameAdmin(groups.rosters.table \o groups.rosters.lounge)
        start == groups.rosters.startIndex.tableStartIndex
        thisWeekAll == takeWithWrapAdmin(combined, start, 6)
        nextWeekAll == takeWithWrapAdmin(combined, start + 6, 6)
    IN  [all |-> combined, start |-> start,
         thisWeek |-> [main |-> Slice(thisWeekAll, 0, 4),
                       bonus |-> Slice(thisWeekAll, 4, Len(thisWeekAll))],
         nextWeek |-> [main |-> Slice(nextWeekAll, 0, 4),
                       bonus |-> Slice(nextWeekAll, 4, Len(nextWeekAll))]]

\* the cycle's roster: SCHEDULED_QUOTA + 1 attending readers, each unassigned
\* or pending, and possibly one more person who is not coming
AppRosters ==
    {[i \in 1..(SCHEDULED_QUOTA + 1 + extra) |->
          IF i <= SCHEDULED_QUOTA + 1
          THEN Participant(i, "yes", rd[i], TRUE, FALSE)
          ELSE Participant(i, "no", "unassigned", TRUE, FALSE)] :
        rd \in [1..(SCHEDULED_QUOTA + 1) -> {"unassigned", "pending"}],
        extra \in 0..1}

InitApp ==
    /\ participants \in AppRosters
    /\ rotation = UndefinedObj
    /\ op = "none"
    /\ ret = [start |-> 0, scheduled |-> <<>>, prevStart |-> 0, prevScheduled |-> <<>>]
    /\ cycle = 0
    /\ tally = [k \in 1..Len(participants) |-> 0]

\* what a page showing this start index and these scheduled readers leaves
\* in the state
Shown(page, start, scheduled) ==
    /\ op' = page
    /\ ret' = [start |-> start, scheduled |-> IdsOf(scheduled),
               prevStart |-> ret.start, prevScheduled |-> ret.scheduled]
    /\ tally' = [k \in 1..Len(participants) |->
                    IF k \in IdSet(scheduled) THEN tally[k] + 1 ELSE tally[k]]
    /\ cycle' = cycle + 1
    /\ UNCHANGED <<participants, rotation>>

\* the public page of a cycle
HomePage ==
    /\ cycle < AppCycles
    /\ \E js \in Draws(Len(SelectSeq(participants, isAttending))) :
          LET groups == makeGroupsRosters(participants, rotation, js)
          IN  Shown("home", groups.rosters.startIndex.tableStartIndex,
                    groups.readers.table.scheduled)

\* the admin page of a cycle
AdminPage ==
    /\ cycle < AppCycles
    /\ \E js \in Draws(Len(seatedParticipants(participants))) :
          LET groups == makeGroupsRosters(seatedParticipants(participants), rotation, js)
              schedule == readerSchedule(groups)
          IN  Shown("admin", schedule.start, schedule.thisWeek.main)

NextApp == HomePage \/ AdminPage

SpecApp == InitApp /\ [][NextApp]_vars

----------------------------------------------------------------------------
(* Specification SpecSeat: makeGroups of the two weekly-state engines on    *)
(* rosters that seat one group (0 to SingleGroupMax attendees), with        *)
(* weekly state as the API delivers it: values of the enums, absent         *)
(* values, and values outside the enums.  ret records the result next to    *)
(* the draws of the shuffle that produced it.                               *)

\* asAttendanceStatus and asReadingStatus of the public page
asAttendanceStatus(v) == IF v \in AttendanceStatus THEN v ELSE "unknown"

asReadingStatus(v) == IF v \in ReadingStatus THEN v ELSE "unassigned"

\* the weekly state one member can have: <<attendance, reading>>
SeatProfiles ==
    {<<"yes", "unassigned">>, <<"maybe", "pending">>, <<"yes", "confirmed">>,
     <<"unknown", "deferred">>, <<"no", "pending">>, <<"late", "done">>}

\* rosters of 0..MaxMixed members in every combination of profiles
MixedRosters ==
    UNION {{[i \in 1..k |-> Participant(i, pf[i][1], pf[i][2], TRUE, FALSE)] :
                pf \in [1..k -> SeatProfiles]} : k \in 0..MaxMixed}

\* rosters of up to SingleGroupMax members who did not say no: members with
\* an odd id carry no weekly state at all, the others are attending and
\* unassigned
FullRosters ==
    {[i \in 1..k |-> IF i % 2 = 1 THEN Participant(i, Undefined, Undefined, TRUE, FALSE)
                     ELSE Participant(i, "yes", "unassigned", TRUE, FALSE)] :
        k \in (MaxMixed + 1)..SingleGroupMax}

SeatRotations == {UndefinedObj, SplitRotation}

InitSeat ==
    /\ participants \in MixedRosters \cup FullRosters
    /\ rotation \in SeatRotations
    /\ op = "none"
    /\ ret = <<>>
    /\ cycle = 0
    /\ tally = <<>>

MakeGroupsSeat ==
    /\ op = "none"
    /\ op' = "makeGroups"
    /\ \E js \in Draws(Len(SelectSeq(participants, isAttending))) :
          ret' = [result |-> makeGroups(participants, rotation, js), js |-> js]
    /\ Frame

MakeGroupsRostersSeat ==
    /\ op = "none"
    /\ op' = "makeGroupsRosters"
    /\ \E js \in Draws(Len(SelectSeq(participants, isAttending))) :
          ret' = [result |-> makeGroupsRosters(participants, rotation, js), js |-> js]
    /\ Frame

NextSeat == MakeGroupsSeat \/ MakeGroupsRostersSeat

SpecSeat == InitSeat /\ [][NextSeat]_vars

----------------------------------------------------------------------------
(* Specification SpecSort: Array.prototype.sort(sortByFirstName) on any     *)
(* arrangement of up to MaxSort of the model's people.                      *)

\* every sequence of k distinct people
Arrangements(k) ==
    {[i \in 1..k |-> Participant(ids[i], "yes", "unassigned", TRUE, FALSE)] :
        ids \in {f \in [1..k -> PersonIds] :
                    \A a, b \in 1..k : a # b => f[a] # f[b]}}

InitSort ==
    /\ participants \in UNION {Arrangements(k) : k \in 0..MaxSort}
    /\ rotation = 0
    /\ op = "none"
    /\ ret = <<>>
    /\ cycle = 0
    /\ tally = <<>>

Sort ==
    /\ op = "none"
    /\ op' = "sort"
    /\ ret' = SortParticipants(participants)
    /\ Frame

NextSort == Sort

SpecSort == InitSort /\ [][NextSort]_vars

----------------------------------------------------------------------------
(* Specification SpecWriters: two callers of the core sharing one stored    *)
(* rotation cursor.  Each caller reads the stored cursor, runs makeGroups   *)
(* once on the roster and writes back the next cursor that run computed.    *)
(* The store and the read and write steps are the calling layer the design  *)
(* describes; the run of the core is the code.  ret holds, per caller, its  *)
(* position, the cursor it read and the next cursor it computed.            *)

Callers == 1..2

\* the next start indices the reader assignments inside makeGroups compute
\* (tableReaders.nextStartIndex and loungeReaders.nextStartIndex); a group
\* that gets no reader assignment keeps its start index
nextCursor(people, rot, js) ==
    LET seated == SelectSeq(people, isAttending)
        total == Len(seated)
        shuffled == shuffle(seated, js)
        split == Deal(shuffled, <<>>, <<>>)
    IN  IF total = 0
        THEN [tableStartIndex |-> TableStart(rot), loungeStartIndex |-> LoungeStart(rot)]
        ELSE IF total <= SingleGroupMax
        THEN [tableStartIndex |->
                  assignReadersForGroup(shuffled, TableStart(rot), 4, 2).nextStartIndex,
              loungeStartIndex |-> LoungeStart(rot)]
        ELSE [tableStartIndex |->
                  assignReadersForGroup(split.table, TableStart(rot), 4, 2).nextStartIndex,
              loungeStartIndex |->
                  assignReadersForGroup(split.lounge, LoungeStart(rot), 4, 2).nextStartIndex]

\* the nine attendees of SplitReading, and the first five of them
WriterRosters ==
    {[i \in 1..k |-> Participant(i, "yes", SplitReading[i], TRUE, FALSE)] :
        k \in {MaxPeople, SplitSize}}

InitWriters ==
    /\ participants \in WriterRosters
    /\ rotation = SplitRotation
    /\ op = "none"
    /\ ret = [c \in Callers |-> [pc |-> "idle", cursor |-> UndefinedObj,
                                 next |-> UndefinedObj]]
    /\ cycle = 0
    /\ tally = <<>>

ReadCursor(c) ==
    /\ ret[c].pc = "idle"
    /\ ret' = [ret EXCEPT ![c] = [pc |-> "read", cursor |-> rotation,
                                  next |-> UndefinedObj]]
    /\ op' = "read"
    /\ UNCHANGED <<participants, rotation, cycle, tally>>

RunCore(c) ==
    /\ ret[c].pc = "read"
    /\ \E js \in Draws(Len(SelectSeq(participants, isAttending))) :
          ret' = [ret EXCEPT ![c] = [pc |-> "computed", cursor |-> ret[c].cursor,
                                     next |-> nextCursor(participants, ret[c].cursor, js)]]
    /\ op' = "makeGroups"
    /\ UNCHANGED <<participants, rotation, cycle, tally>>

WriteCursor(c) ==
    /\ ret[c].pc = "computed"
    /\ rotation' = ret[c].next
    /\ ret' = [ret EXCEPT ![c].pc = "written"]
    /\ op' = "write"
    /\ cycle' = cycle + 1
    /\ UNCHANGED <<participants, tally>>

NextWriters == \E c \in Callers : ReadCursor(c) \/ RunCore(c) \/ WriteCursor(c)

SpecWriters == InitWriters /\ [][NextWriters]_vars

----------------------------------------------------------------------------
(* Specification SpecPartition: makeGroups of the two weekly-state engines  *)
(* on unfiltered rosters, small ones in every combination of weekly state   *)
(* and rosters of ten people of whom none, one or two said no, so that the  *)
(* attendees are seated as one group or split into two.  The actions are   *)
(* those of SpecSeat.                                                       *)

\* who said no in the rosters of ten
Absentees == {{}, {2}, {5, 10}}

\* the attendance and the reading of the others, by position
PartAttendance == <<"yes", "maybe", "unknown", Undefined, "late">>
PartReading == <<"unassigned", "pending", "confirmed", "deferred">>

PartitionRosters ==
    {[i \in 1..10 |->
          Participant(i, IF i \in no THEN "no" ELSE PartAttendance[(i % 5) + 1],
                      PartReading[(i % 4) + 1], TRUE, FALSE)] : no \in Absentees}

InitPartition ==
    /\ participants \in MixedRosters \cup PartitionRosters
    /\ rotation = UndefinedObj
    /\ op = "none"
    /\ ret = <<>>
    /\ cycle = 0
    /\ tally = <<>>

NextPartition == MakeGroupsSeat \/ MakeGroupsRostersSeat

SpecPartition == InitPartition /\ [][NextPartition]_vars

----------------------------------------------------------------------------
(* Specification SpecAdmin: the seating and the reader schedule of the      *)
(* latest admin page, derived from the cycle roster as the API delivered    *)
(* it: small rosters in every combination of weekly state, and rosters of   *)
(* ten people of whom nine said yes.  ret records the groups and the        *)
(* schedule the page renders.                                               *)

\* what the tenth person answered
OtherAnswers == {"maybe", "unknown", "no", Undefined}

AdminRosters ==
    {[i \in 1..10 |-> IF i = 3 THEN Participant(i, a, "pending", TRUE, FALSE)
                      ELSE Participant(i, "yes", PartReading[(i % 4) + 1], TRUE, FALSE)] :
        a \in OtherAnswers}

InitAdmin ==
    /\ participants \in MixedRosters \cup AdminRosters
    /\ rotation = UndefinedObj
    /\ op = "none"
    /\ ret = <<>>
    /\ cycle = 0
    /\ tally = <<>>

\* seatedParticipants, groups and readerSchedule of one render
AdminView ==
    /\ op = "none"
    /\ op' = "admin"
    /\ \E js \in Draws(Len(seatedParticipants(participants))) :
          LET groups == makeGroupsRosters(seatedParticipants(participants), rotation, js)
          IN  ret' = [groups |-> groups, readerSchedule |-> readerSchedule(groups),
                      js |-> js]
    /\ Frame

NextAdmin == AdminView

SpecAdmin == InitAdmin /\ [][NextAdmin]_vars

----------------------------------------------------------------------------
(* Specification SpecPatch: PATCH /api/cycles/[cycleId]/participants/       *)
(* [participantId] handled for a sequence of requests against the           *)
(* cycle_participants row of participant 1.  participants holds the stored  *)
(* rows, cycle counts the requests (and is the clock that stamps            *)
(* responded_at), ret records the last request, its status and the rows as  *)
(* they were before it.                                                     *)

\* JSON values as the handler sees them after req.json()
JUndefined == [type |-> "undefined"]
JNull == [type |-> "null"]
JString(s) == [type |-> "string", value |-> s]
JNumber(n) == [type |-> "number", value |-> n]
NaN == [type |-> "number", nan |-> TRUE]
Infinity == [type |-> "number", infinite |-> TRUE]

VALID_ATTENDANCE == {"unknown", "yes", "no", "maybe"}
VALID_READING == {"unassigned", "pending", "confirmed", "deferred"}
READING_DESC_MAX == 300

isAttendance(v) == v.type = "string" /\ v.value \in VALID_ATTENDANCE

isReading(v) == v.type = "string" /\ v.value \in VALID_READING

normalizeReadingDescription(v) ==
    IF v = JUndefined THEN JUndefined
    ELSE IF v = JNull THEN JNull
    ELSE IF v.type # "string" THEN JUndefined
    ELSE LET trimmed == Slice(trim(v.value), 0, READING_DESC_MAX)
         IN  IF Len(trimmed) > 0 THEN JString(trimmed) ELSE JNull

\* the participantId segments of the model's request paths
PathIds == {"1", "2", "x", "Infinity"}

\* Number(participantId) on those segments
Number(s) ==
    CASE s = "1" -> JNumber(1)
      [] s = "2" -> JNumber(2)
      [] s = "Infinity" -> Infinity
      [] OTHER -> NaN

\* Number.isFinite
isFinite(v) == v.type = "number" /\ "value" \in DOMAIN v

\* reading descriptions: " hi " and a note of READING_DESC_MAX + 1 letters
ShortNote == <<32, 104, 105, 32>>
LongNote == [k \in 1..(READING_DESC_MAX + 1) |-> 97]

\* the request bodies: text that is not JSON, the JSON value null, and
\* objects with each field absent, null, valid or invalid
NotJson == [type |-> "malformed"]
Bodies ==
    {NotJson, JNull} \cup
    [type : {"object"},
     attendance : {JUndefined, JNull, JString("yes"), JString("late")},
     reading : {JUndefined, JString("confirmed"), JString("done")},
     reading_description : {JUndefined, JNull, JString(ShortNote), JString(<<SPACE>>),
                            JString(LongNote), JNumber(5)}]

\* the row of cycle_participants after update(updates) at time now
Updated(row, updates, now) ==
    [cycle_id |-> row.cycle_id,
     participant_id |-> row.participant_id,
     attendance |-> IF updates.attendance = JUndefined THEN row.attendance
                    ELSE updates.attendance.value,
     reading |-> IF updates.reading = JUndefined THEN row.reading
                 ELSE updates.reading.value,
     reading_description |-> IF updates.reading_description = JUndefined
                             THEN row.reading_description
                             ELSE updates.reading_description,
     responded_at |-> JNumber(now)]

\* The handler PATCH for one request: the status it answers with and the rows
\* it leaves.  dbOk is whether the database call succeeds.
PATCH(participantId, body, dbOk, rows, now) ==
    LET pid == Number(participantId)
        raw == body
        updates == [attendance |-> raw.attendance,
                    reading |-> raw.reading,
                    reading_description |->
                        normalizeReadingDescription(raw.reading_description)]
        hits == {k \in 1..Len(rows) : JNumber(rows[k].participant_id) = pid}
    IN  IF ~isFinite(pid) THEN [status |-> 400, rows |-> rows]
        ELSE IF body = NotJson \/ body = JNull THEN [status |-> 500, rows |-> rows]
        ELSE IF raw.attendance # JUndefined /\ ~isAttendance(raw.attendance)
             THEN [status |-> 400, rows |-> rows]
        ELSE IF raw.reading # JUndefined /\ ~isReading(raw.reading)
             THEN [status |-> 400, rows |-> rows]
        ELSE IF \A f \in DOMAIN updates : updates[f] = JUndefined
             THEN [status |-> 400, rows |-> rows]
        ELSE IF ~dbOk \/ Cardinality(hits) # 1 THEN [status |-> 500, rows |-> rows]
        ELSE [status |-> 200,
              rows |-> [k \in 1..Len(rows) |->
                           IF k \in hits THEN Updated(rows[k], updates, now)
                           ELSE rows[k]]]

InitPatch ==
    /\ participants = <<[cycle_id |-> "c1", participant_id |-> 1,
                         attendance |-> "unknown", reading |-> "unassigned",
                         reading_description |-> JNull, responded_at |-> JNull]>>
    /\ rotation = UndefinedObj
    /\ op = "none"
    /\ ret = <<>>
    /\ cycle = 0
    /\ tally = <<>>

Patch ==
    /\ cycle < MaxRequests
    /\ \E participantId \in PathIds, body \in Bodies, dbOk \in BOOLEAN :
          LET r == PATCH(participantId, body, dbOk, participants, cycle + 1)
          IN  /\ participants' = r.rows
              /\ ret' = [participantId |-> participantId, body |-> body,
                         status |-> r.status, before |-> participants]
    /\ op' = "PATCH"
    /\ cycle' = cycle + 1
    /\ UNCHANGED <<rotation, tally>>

NextPatch == Patch

SpecPatch == InitPatch /\ [][NextPatch]_vars

----------------------------------------------------------------------------
(* Specification SpecCycles: GET /api/cycles/current served to two clients  *)
(* whose requests interleave between the lookup and the insert.  cycle is   *)
(* the day the server's clock shows (day 0 is a Sunday), tally is the       *)
(* database: the rows of the table cycles and whether the table has a       *)
(* unique constraint on week_start (the schema is not part of the source,   *)
(* so both are possible).  ret holds each request's position and the        *)
(* responses sent so far.                                                   *)

\* startOfWeekTuesday on day numbers: the day of the Tuesday on or before d
startOfWeekTuesday(d) ==
    LET day == d % 7
        diff == (day + 5) % 7
    IN  d - diff

\* the rows of cycles with this week_start
WeekRows(week_start) == SelectSeq(tally.cycles, LAMBDA row : row.week_start = week_start)

InitCycles ==
    /\ participants = <<>>
    /\ rotation = UndefinedObj
    /\ op = "none"
    /\ ret = [at |-> [c \in Callers |-> [pc |-> "idle", week_start |-> 0]],
              sent |-> 0, responses |-> {}]
    /\ cycle \in 0..MaxDays
    /\ tally \in [cycles : {<<>>}, uniqueWeekStart : BOOLEAN]

\* ret after the request of client c is answered
Respond(c, week_start, status, id) ==
    [at |-> [ret.at EXCEPT ![c] = [pc |-> "idle", week_start |-> 0]],
     sent |-> ret.sent,
     responses |-> ret.responses \cup
                      {[week_start |-> week_start, status |-> status, id |-> id]}]

\* the first half of GET: week_start from the clock, then the lookup with
\* maybeSingle(), which fails when more than one row matches
FetchExisting(c) ==
    /\ ret.at[c].pc = "idle"
    /\ ret.sent < MaxGets
    /\ LET week_start == startOfWeekTuesday(cycle)
           existing == WeekRows(week_start)
           sent == [ret EXCEPT !.sent = @ + 1]
       IN  ret' = IF Len(existing) > 1
                  THEN [Respond(c, week_start, 500, 0) EXCEPT !.sent = @ + 1]
                  ELSE IF Len(existing) = 1
                  THEN [Respond(c, week_start, 200, existing[1].id) EXCEPT !.sent = @ + 1]
                  ELSE [sent EXCEPT !.at[c] = [pc |-> "create", week_start |-> week_start]]
    /\ op' = "fetch"
    /\ UNCHANGED <<participants, rotation, cycle, tally>>

\* the second half of GET: the insert, refused by the unique constraint where
\* there is one and a row of that week exists
CreateNew(c) ==
    /\ ret.at[c].pc = "create"
    /\ LET week_start == ret.at[c].week_start
           id == Len(tally.cycles) + 1
       IN  IF tally.uniqueWeekStart /\ WeekRows(week_start) # <<>>
           THEN /\ ret' = Respond(c, week_start, 500, 0)
                /\ tally' = tally
           ELSE /\ ret' = Respond(c, week_start, 201, id)
                /\ tally' = [tally EXCEPT !.cycles =
                                Append(@, [id |-> id, week_start |-> week_start])]
    /\ op' = "create"
    /\ UNCHANGED <<participants, rotation, cycle>>

\* new Date(): the clock moves on to the next day
NextDay ==
    /\ cycle < MaxDays
    /\ cycle' = cycle + 1
    /\ op' = "day"
    /\ UNCHANGED <<participants, rotation, ret, tally>>

NextCycles == (\E c \in Callers : FetchExisting(c) \/ CreateNew(c)) \/ NextDay

SpecCycles == InitCycles /\ [][NextCycles]_vars

----------------------------------------------------------------------------
(* Specification SpecSession: the admin login and logout routes serving one *)
(* browser.  tally holds the browser's gs_admin cookie (Undefined while it  *)
(* has none) and the server's ADMIN_PASSWORD (Undefined while unset); cycle *)
(* counts the requests; ret records the last request, its status, the       *)
(* cookie before it, and whether a logout has been requested since the      *)
(* last successful login.                                                   *)

isAdminAuthed(jar) == jar.gs_admin = "1"

setAdminAuthed(jar) == [jar EXCEPT !.gs_admin = "1"]

clearAdminAuthed(jar) == [jar EXCEPT !.gs_admin = ""]

InitSession ==
    /\ participants = <<>>
    /\ rotation = UndefinedObj
    /\ op = "none"
    /\ ret = [username |-> Undefined, password |-> Undefined, status |-> 0,
              before |-> Undefined, loggedOut |-> FALSE]
    /\ cycle = 0
    /\ tally \in [gs_admin : {Undefined}, ADMIN_PASSWORD : {Undefined, "", "secret"}]

\* POST of the login route
Login ==
    /\ cycle < MaxSession
    /\ \E username \in {"admin", "Admin", Undefined},
          password \in {"secret", "guess", "", Undefined} :
          LET correct == tally.ADMIN_PASSWORD
              status == IF username # "admin" THEN 401
                        ELSE IF correct = Undefined \/ correct = "" THEN 500
                        ELSE IF password # correct THEN 401
                        ELSE 200
          IN  /\ tally' = IF status = 200 THEN setAdminAuthed(tally) ELSE tally
              /\ ret' = [username |-> username, password |-> password,
                         status |-> status, before |-> tally.gs_admin,
                         loggedOut |-> ret.loggedOut /\ status # 200]
    /\ op' = "login"
    /\ cycle' = cycle + 1
    /\ UNCHANGED <<participants, rotation>>

\* POST of the logout route.  It calls clearAdminAuthed() without awaiting
\* it and returns its response: the cookie is written if the rest of
\* clearAdminAuthed runs before the response is completed, and not otherwise.
Logout ==
    /\ cycle < MaxSession
    /\ \E written \in BOOLEAN :
          tally' = IF written THEN clearAdminAuthed(tally) ELSE tally
    /\ ret' = [username |-> Undefined, password |-> Undefined, status |-> 200,
               before |-> tally.gs_admin, loggedOut |-> TRUE]
    /\ op' = "logout"
    /\ cycle' = cycle + 1
    /\ UNCHANGED <<participants, rotation>>

NextSession == Login \/ Logout

SpecSession == InitSession /\ [][NextSession]_vars

----------------------------------------------------------------------------
(* Vocabulary of the properties *)


\* the scheduled and bonus lists of the reader assignment recorded in ret
RetReaders == IF op = "readersThisWeek" THEN ret ELSE ret.readers
ReaderOps == {"assignReadersForGroup", "readersThisWeek", "assignReadersForGroupLib"}

\* the group's rotation roster as the design describes it: attending, not
\* deferred, not confirmed, in sortByFirstName order
RotationList == SortParticipants(SelectSeq(SelectSeq(participants, isAttending),
                    LAMBDA p : p.reading \notin {"deferred", "confirmed"}))
ConfirmedList == SortParticipants(SelectSeq(SelectSeq(participants, isAttending),
                    LAMBDA p : p.reading = "confirmed"))

----------------------------------------------------------------------------
(* C1: for any group roster and any start index, no participant id occurs  *)
(* more than once in scheduled followed by bonus, in each of the three     *)
(* engines' reader assignment.                                             *)
C1_NoDuplicateReaders ==
    op \in ReaderOps =>
        NoRepeat(IdsOf(RetReaders.scheduled \o RetReaders.bonus))

\* the rotation wrapped past the end of its list and filled both lists
C1_Witness ==
    /\ op = "assignReadersForGroup"
    /\ Len(ret.readers.scheduled) = 4
    /\ Len(ret.readers.bonus) = 1
    /\ Len(RotationList) = 3
    /\ rotation = 2

(* C2 as stated: every attending confirmed member is in scheduled when the *)
(* group has at most 4 of them, scheduled is exactly the first 4 of them   *)
(* in sortByFirstName order when it has more, and no confirmed member is   *)
(* in bonus; for the reader assignment of both weekly-state engines.       *)
C2_ConfirmedFirst ==
    op \in {"assignReadersForGroup", "readersThisWeek"} =>
        /\ Len(ConfirmedList) <= 4 => IdSet(ConfirmedList) \subseteq IdSet(RetReaders.scheduled)
        /\ Len(ConfirmedList) > 4 => RetReaders.scheduled = SubSeq(ConfirmedList, 1, 4)
        /\ IdSet(ConfirmedList) \cap IdSet(RetReaders.bonus) = {}

(* C3: no participant whose reading status is 'deferred' is in scheduled,  *)
(* in bonus or returned as upNext.                                         *)
C3_DeferredExcluded ==
    /\ op \in {"assignReadersForGroup", "readersThisWeek"} =>
           \A k \in 1..Len(RetReaders.scheduled \o RetReaders.bonus) :
               (RetReaders.scheduled \o RetReaders.bonus)[k].reading # "deferred"
    /\ op = "getUpNext" /\ ret # NullObj => ret.reading # "deferred"

\* a deferred member that sorts first was passed over by a full schedule
C3_Witness ==
    /\ op = "assignReadersForGroup"
    /\ Len(participants) >= 5
    /\ participants[3].reading = "deferred"
    /\ Len(ret.readers.scheduled) = 4

(* C4: whenever a non-confirmed person was placed in scheduled,            *)
(* nextStartIndex = (index in the sorted notConfirmed list of the last     *)
(* non-confirmed person in scheduled + 1) mod n; bonus does not move it.   *)
LastRotated(scheduled) ==
    LET nc == SelectSeq(scheduled, LAMBDA p : p.reading # "confirmed")
    IN  nc[Len(nc)]

C4_CursorAdvance ==
    op = "assignReadersForGroup" =>
        LET sch == ret.readers.scheduled
        IN  (\E k \in 1..Len(sch) : sch[k].reading # "confirmed") =>
                ret.nextStartIndex =
                    (FindIndexById(RotationList, LastRotated(sch).id) + 1)
                        % Len(RotationList)

\* two people went to bonus and the cursor stopped right after scheduled
C4_Witness ==
    /\ op = "assignReadersForGroup"
    /\ Len(ret.readers.bonus) = 2
    /\ Len(RotationList) = 6
    /\ rotation = 1
    /\ ret.nextStartIndex = 5

(* C5 as stated: when no non-confirmed person was placed in scheduled,     *)
(* nextStartIndex equals the start index that was passed in.               *)
C5_CursorUnchanged ==
    op = "assignReadersForGroup" =>
        LET sch == ret.readers.scheduled
        IN  (\A k \in 1..Len(sch) : sch[k].reading = "confirmed") =>
                ret.nextStartIndex = rotation

(* C6: takeWithWrap(list, start, count) on n distinct elements returns     *)
(* exactly min(max(count, 0), n) elements, the circular run                *)
(* list[(start mod n + i) mod n], i = 0.., with no repeat, and every       *)
(* element once when count >= n.                                           *)
C6_TakeWithWrap ==
    op \in {"takeWithWrap", "takeWithWrapAdmin"} =>
        LET n == Len(ret.list)
            len == Min(Max(ret.count, 0), n)
        IN  /\ Len(ret.out) = len
            /\ \A i \in 0..(len - 1) :
                   ret.out[i + 1] = ret.list[(((rotation % n) + i) % n) + 1]
            /\ NoRepeat(IdsOf(ret.out))
            /\ ret.count >= n => Range(ret.out) = Range(ret.list)

\* a negative start, a count beyond the list: the run wraps and stops at n
C6_Witness ==
    /\ op = "takeWithWrap"
    /\ rotation = -1
    /\ Len(ret.list) = 4
    /\ ret.count = 6
    /\ IdsOf(ret.out) = <<1, 3, 2, 4>>

----------------------------------------------------------------------------
(* Properties of makeGroups *)

Abs(x) == IF x < 0 THEN 0 - x ELSE x

\* how many people the engine that produced ret had to seat
Attendees ==
    IF op = "makeGroupsLib" THEN Len(participants)
    ELSE Len(SelectSeq(participants, isAttending))

MakeGroupsOps == {"makeGroups", "makeGroupsLib"}

InPlace == <<1, 2, 3, 4, 5, 6, 7, 8, 9>>

(* C8 as stated: any two invocations of makeGroups on the same roster and  *)
(* cursor return the same upNext and the same scheduled and bonus lists    *)
(* for each group, whatever their shuffles: the recorded invocation agrees *)
(* with the invocation whose shuffle left the order as it was.             *)
C8_Deterministic ==
    op = "makeGroups" =>
        LET other == makeGroups(participants, rotation, InPlace)
        IN  /\ ret.upNext = other.upNext
            /\ ret.readers = other.readers

----------------------------------------------------------------------------
(* C9: fair rotation in a single group.  For a fixed roster with at least  *)
(* one schedulable member and nobody confirmed, with each cycle's          *)
(* nextStartIndex fed back as the next startIndex from any initial cursor, *)
(* after any number of cycles the numbers of times any two schedulable     *)
(* members have been in scheduled differ by at most 1.                     *)
C9_FairRotation ==
    \A a, b \in 1..Len(participants) :
        (isSchedulableThisWeek(participants[a]) /\ isSchedulableThisWeek(participants[b]))
            => Abs(tally[a] - tally[b]) <= 1

\* five schedulable members after two cycles: the rotation has wrapped, three
\* members were scheduled twice and two once
C9_Witness ==
    /\ op = "assignReadersForGroup"
    /\ cycle = 2
    /\ Len(RotationList) = 5
    /\ Cardinality({k \in 1..Len(participants) : tally[k] = 2}) = 3
    /\ Cardinality({k \in 1..Len(participants) : tally[k] = 1}) = 2

(* C10 as stated: across successive cycles with an unchanged roster of more *)
(* than 4 eligible non-confirmed readers, the start index the pages use     *)
(* advances from one cycle to the next, the scheduled readers of            *)
(* consecutive cycles are not the same set, and after AppCycles cycles      *)
(* every eligible person has been scheduled.                                *)
C10_RotationAdvances ==
    /\ cycle >= 2 => /\ ret.start # ret.prevStart
                     /\ Range(ret.scheduled) # Range(ret.prevScheduled)
    /\ cycle = AppCycles =>
          \A k \in 1..Len(participants) :
              isSchedulableThisWeekRosters(participants[k]) => tally[k] > 0

----------------------------------------------------------------------------
(* Vocabulary of the properties of makeGroups on one seated group *)

SeatOps == {"makeGroups", "makeGroupsRosters"}

\* the participants of the input that did not say no
NotSaidNo == SelectSeq(participants, LAMBDA p : p.attendance # "no")

\* the cursor a caller can read off a result of makeGroups: the roster engine
\* returns rosters.startIndex, the weekly-state engine returns no cursor
ResultCursor(r) ==
    IF "rosters" \in DOMAIN r THEN r.rosters.startIndex ELSE UndefinedObj

\* the id of an upNext value, 0 for null
UpId(x) == IF x = NullObj THEN 0 ELSE x.id

(* C11 as stated: the result of makeGroups carries, for table and lounge,  *)
(* a next start index equal to the nextStartIndex the reader assignment    *)
(* computes for that group.                                                *)
C11_ResultCarriesCursor ==
    op \in SeatOps =>
        LET r == ret.result
            c == ResultCursor(r)
        IN  /\ c # UndefinedObj
            /\ c.tableStartIndex =
                   assignReadersForGroup(r.table, TableStart(rotation), 4, 2).nextStartIndex
            /\ c.loungeStartIndex =
                   assignReadersForGroup(r.lounge, LoungeStart(rotation), 4, 2).nextStartIndex

(* C13: when every participant said no (or there is no participant),       *)
(* makeGroups returns table and lounge empty, scheduled and bonus empty    *)
(* for both groups, upNext null for both groups and the error              *)
(* 'No attendees for this week.'.                                          *)
C13_ZeroAttendees ==
    (op \in SeatOps /\ NotSaidNo = <<>>) =>
        LET r == ret.result
        IN  /\ r.table = <<>>
            /\ r.lounge = <<>>
            /\ r.readers = [table |-> [scheduled |-> <<>>, bonus |-> <<>>],
                            lounge |-> [scheduled |-> <<>>, bonus |-> <<>>]]
            /\ r.upNext = [table |-> NullObj, lounge |-> NullObj]
            /\ r.error = "No attendees for this week."

\* two participants who both said no, one of them pending
C13_Witness ==
    /\ op = "makeGroups"
    /\ Len(participants) = 2
    /\ NotSaidNo = <<>>
    /\ ret.result.error = "No attendees for this week."

(* C14 as stated: with at least one attendee and every attendee            *)
(* 'deferred', makeGroups returns empty scheduled and bonus lists and a    *)
(* populated error string.                                                 *)
C14_ZeroEligible ==
    (/\ op \in SeatOps
     /\ NotSaidNo # <<>>
     /\ \A k \in 1..Len(NotSaidNo) : NotSaidNo[k].reading = "deferred") =>
        LET r == ret.result
        IN  /\ r.readers = [table |-> [scheduled |-> <<>>, bonus |-> <<>>],
                            lounge |-> [scheduled |-> <<>>, bonus |-> <<>>]]
            /\ r.error # Undefined
            /\ r.error # ""

\* what C15 asks of the upNext of a group with these members
UpNextOf(members, up) ==
    LET attending == SelectSeq(members, LAMBDA p : p.attendance # "no")
        pending == SelectSeq(attending, LAMBDA p : p.reading = "pending")
        open == SortParticipants(SelectSeq(attending,
                    LAMBDA p : p.reading \notin {"deferred", "confirmed"}))
    IN  IF pending # <<>> THEN up \in Range(pending)
        ELSE IF open # <<>> THEN up = open[1]
        ELSE up = NullObj

(* C15: for each group, if an attending member is 'pending' then upNext is *)
(* a pending attending member; otherwise it is the least member in         *)
(* sortByFirstName order among the attending members that are neither      *)
(* 'deferred' nor 'confirmed'; it is null exactly when there is none.      *)
C15_UpNext ==
    op \in SeatOps =>
        /\ UpNextOf(ret.result.table, ret.result.upNext.table)
        /\ UpNextOf(ret.result.lounge, ret.result.upNext.lounge)

\* two pending members at the table, and upNext is the one that sorts later
C15_Witness ==
    /\ op = "makeGroupsRosters"
    /\ \E a, b \in 1..Len(ret.result.table) :
          /\ ret.result.table[a].reading = "pending"
          /\ ret.result.table[b].reading = "pending"
          /\ SortOrder[ret.result.table[a].id][ret.result.table[b].id] < 0
          /\ ret.result.upNext.table = ret.result.table[b]

(* C16: for 1 to 8 attendees, table holds every attendee, lounge is empty, *)
(* lounge's scheduled and bonus are empty and lounge's upNext is null.     *)
C16_SingleGroup ==
    (op \in SeatOps /\ Len(NotSaidNo) >= 1 /\ Len(NotSaidNo) <= 8) =>
        LET r == ret.result
        IN  /\ Len(r.table) = Len(NotSaidNo)
            /\ Range(r.table) = Range(NotSaidNo)
            /\ r.lounge = <<>>
            /\ r.readers.lounge = [scheduled |-> <<>>, bonus |-> <<>>]
            /\ r.upNext.lounge = NullObj

\* eight attendees at the table, the first seat taken by the shuffle
C16_Witness ==
    /\ op = "makeGroups"
    /\ Len(NotSaidNo) = 8
    /\ Len(ret.result.table) = 8
    /\ ret.result.table[1].id # 1

\* the roster with every weekly value passed through asAttendanceStatus and
\* asReadingStatus
Normalised ==
    [k \in 1..Len(participants) |->
        [participants[k] EXCEPT !.attendance = asAttendanceStatus(@),
                                !.reading = asReadingStatus(@)]]

\* seating membership, readers and upNext of a result, by id
Outcome(r) ==
    [table |-> IdsOf(r.table), lounge |-> IdsOf(r.lounge),
     tableScheduled |-> IdsOf(r.readers.table.scheduled),
     tableBonus |-> IdsOf(r.readers.table.bonus),
     loungeScheduled |-> IdsOf(r.readers.lounge.scheduled),
     loungeBonus |-> IdsOf(r.readers.lounge.bonus),
     upNextTable |-> UpId(r.upNext.table), upNextLounge |-> UpId(r.upNext.lounge)]

(* C19: with attendance or reading values outside the enums, makeGroups    *)
(* returns the seating membership, scheduled, bonus and upNext it returns  *)
(* for the same roster with such an attendance replaced by 'unknown' and   *)
(* such a reading by 'unassigned' (same shuffle draws).                    *)
C19_MalformedState ==
    /\ op = "makeGroups" =>
           Outcome(ret.result) = Outcome(makeGroups(Normalised, rotation, ret.js))
    /\ op = "makeGroupsRosters" =>
           Outcome(ret.result) = Outcome(makeGroupsRosters(Normalised, rotation, ret.js))

\* a member whose attendance and reading are both outside the enums is
\* seated and scheduled
C19_Witness ==
    /\ op = "makeGroupsRosters"
    /\ \E k \in 1..Len(participants) :
          /\ participants[k].attendance = "late"
          /\ participants[k].reading = "done"
          /\ k \in IdSet(ret.result.table)
          /\ k \in IdSet(ret.result.readers.table.scheduled)

----------------------------------------------------------------------------
(* C17: with c confirmed and n non-confirmed eligible members in a group,  *)
(* scheduled has exactly min(4, c + n) entries and bonus exactly           *)
(* min(2, n - r), r being the number of non-confirmed members in           *)
(* scheduled; every entry is an eligible member of the group; bonus is     *)
(* non-empty only when scheduled holds 4 entries.                          *)
C17_SoftQuotas ==
    op = "assignReadersForGroup" =>
        LET sch == ret.readers.scheduled
            bon == ret.readers.bonus
            c == Len(ConfirmedList)
            n == Len(RotationList)
            r == Cardinality({k \in 1..Len(sch) : sch[k].reading # "confirmed"})
        IN  /\ Len(sch) = Min(4, c + n)
            /\ Len(bon) = Min(2, n - r)
            /\ \A p \in Range(sch) \cup Range(bon) :
                   /\ p \in Range(participants)
                   /\ p.attendance # "no"
                   /\ p.reading # "deferred"
            /\ bon # <<>> => Len(sch) = 4

\* one confirmed and four rotated members: scheduled is full and the one
\* member left over is the whole bonus list
C17_Witness ==
    /\ op = "assignReadersForGroup"
    /\ Len(ConfirmedList) = 1
    /\ Len(RotationList) = 4
    /\ Len(ret.readers.scheduled) = 4
    /\ Len(ret.readers.bonus) = 1

\* the readers the operation recorded in op returns for this start index
ReadersFrom(startIndex) ==
    IF op = "readersThisWeek" THEN readersThisWeek(participants, startIndex)
    ELSE assignReadersForGroup(participants, startIndex, 4, 2).readers

----------------------------------------------------------------------------
\* a sorts before b
Before(a, b) == SortOrder[a.id][b.id] < 0

(* C20: on participants with distinct ids sortByFirstName is a strict      *)
(* total order (irreflexive, antisymmetric, transitive, any two distinct   *)
(* participants comparable), and sorting gives the same sequence for any   *)
(* arrangement of the same participants: the result is the arrangement in  *)
(* which every member sorts before all later ones, and it is the result    *)
(* of sorting the reversed input.                                          *)
C20_CanonicalOrder ==
    LET people == Range(participants)
    IN  /\ \A a \in people : ~Before(a, a)
        /\ \A a, b \in people : Before(a, b) => ~Before(b, a)
        /\ \A a, b, c \in people : (Before(a, b) /\ Before(b, c)) => Before(a, c)
        /\ \A a, b \in people : a # b => (Before(a, b) \/ Before(b, a))
        /\ op = "sort" =>
               /\ Len(ret) = Len(participants)
               /\ Range(ret) = people
               /\ \A i, j \in 1..Len(ret) : i < j => Before(ret[i], ret[j])
               /\ ret = SortParticipants(Reverse(participants))

\* 'Bob' (id 4) seated before 'bob' (id 2): equal first and full names in
\* lower case, so the ids decide and the sort exchanges the two
C20_Witness ==
    /\ op = "sort"
    /\ IdsOf(participants) = <<4, 2>>
    /\ IdsOf(ret) = <<2, 4>>

----------------------------------------------------------------------------
(* C12 as stated: when two callers read the same roster and the same       *)
(* stored cursor, each runs the core once and each writes back the next    *)
(* cursor it computed, the stored cursor after both writes is the same     *)
(* value in every interleaving and for every shuffle outcome, the          *)
(* single-advance value (the next cursor of one run from the cursor read,  *)
(* here the run whose shuffle leaves the order as it was), also with more  *)
(* than 8 attendees.                                                       *)
C12_ConcurrentWriters ==
    (/\ \A c \in Callers : ret[c].pc = "written"
     /\ ret[1].cursor = ret[2].cursor) =>
        /\ ret[1].next = ret[2].next
        /\ rotation = nextCursor(participants, ret[1].cursor, InPlace)

----------------------------------------------------------------------------
(* C21: the worked scenario.  For the single group Alice (unassigned), Bob *)
(* (confirmed), Carol (deferred), Dave (unassigned), Eve (pending), all    *)
(* attending, with start index 0 and quotas (4, 2), assignReadersForGroup  *)
(* returns scheduled = [Bob, Alice, Dave, Eve], bonus = [] and             *)
(* nextStartIndex = 0, and getUpNext returns Eve.                          *)
C21_WorkedScenario ==
    participants = ScenarioRoster =>
        /\ (op = "assignReadersForGroup" /\ rotation = 0) =>
              /\ IdsOf(ret.readers.scheduled) = <<4, 3, 1, 5>>
              /\ ret.readers.bonus = <<>>
              /\ ret.nextStartIndex = 0
        /\ op = "getUpNext" => ret = ScenarioRoster[5]

\* the assignment has run on the scenario's roster from start index 0
C21_Witness ==
    /\ participants = ScenarioRoster
    /\ rotation = 0
    /\ op = "assignReadersForGroup"
    /\ Len(ret.readers.scheduled) = 4

----------------------------------------------------------------------------
\* the j-th element (from 0) of the circular run over list that starts at index
\* start mod Len(list)
RunAt(list, start, j) == list[((start + j) % Len(list)) + 1]

(* C22: order of the selection.  scheduled is the first min(4, c)          *)
(* confirmed members in sortByFirstName order followed by the consecutive  *)
(* circular run of the sorted notConfirmed list that starts at index       *)
(* startIndex mod n; bonus is the continuation of that same run, starting  *)
(* right after the last rotation-drawn entry of scheduled.                 *)
C22_SelectionOrder ==
    op = "assignReadersForGroup" =>
        LET n == Len(RotationList)
            k == Min(4, Len(ConfirmedList))
            drawn == Min(4 - k, n)
            more == Min(2, n - drawn)
        IN  /\ ret.readers.scheduled =
                  SubSeq(ConfirmedList, 1, k) \o
                  [j \in 1..drawn |-> RunAt(RotationList, rotation, j - 1)]
            /\ ret.readers.bonus =
                  [j \in 1..more |-> RunAt(RotationList, rotation, drawn + j - 1)]

\* a confirmed member leads, the run starts inside the list, wraps past its
\* end and continues into bonus
C22_Witness ==
    /\ op = "assignReadersForGroup"
    /\ Len(ConfirmedList) = 1
    /\ Len(RotationList) = 4
    /\ rotation = 6
    /\ Len(ret.readers.scheduled) = 4
    /\ Len(ret.readers.bonus) = 1
    /\ ret.readers.bonus[1] = RotationList[2]

----------------------------------------------------------------------------
\* the ids of the people a result of makeGroups names as readers or as up next
NamedIn(r) ==
    IdSet(r.readers.table.scheduled) \cup IdSet(r.readers.table.bonus)
        \cup IdSet(r.readers.lounge.scheduled) \cup IdSet(r.readers.lounge.bonus)
        \cup ({UpId(r.upNext.table), UpId(r.upNext.lounge)} \ {0})

(* C23: seating partition.  For any input and any shuffle outcome, every   *)
(* participant whose attendance is not 'no' ('yes', 'maybe', 'unknown' or  *)
(* absent) appears exactly once in table or lounge and in only one of      *)
(* them, and no participant whose attendance is 'no' appears in table,     *)
(* lounge, scheduled, bonus or upNext.                                     *)
C23_SeatingPartition ==
    op \in SeatOps =>
        LET r == ret.result
            seats == IdsOf(r.table \o r.lounge)
        IN  /\ NoRepeat(seats)
            /\ Range(seats) = IdSet(NotSaidNo)
            /\ NamedIn(r) \subseteq IdSet(NotSaidNo)

\* ten people of whom one said no: the nine others, some with maybe, unknown
\* or no attendance at all, are split over lounge and table by a shuffle that
\* moved the first of them
C23_Witness ==
    /\ op = "makeGroups"
    /\ Len(participants) = 10
    /\ Len(NotSaidNo) = 9
    /\ Len(ret.result.lounge) = 5
    /\ Len(ret.result.table) = 4
    /\ ret.result.lounge[1].id # 1
    /\ \E k \in 1..4 : ret.result.table[k].attendance = Undefined

----------------------------------------------------------------------------
\* no attending member of the group is pending
NobodyPending == \A k \in 1..Len(participants) :
    isAttending(participants[k]) => participants[k].reading # "pending"

\* the ids of this cycle's readers of the group, from the start index in use
ReaderIds ==
    LET readers == assignReadersForGroup(participants, rotation, 4, 2).readers
    IN  IdSet(readers.scheduled) \cup IdSet(readers.bonus)

(* C24 as stated: in a group with no pending attending member and at least *)
(* one non-confirmed eligible member, upNext is the first person the       *)
(* rotation draws this cycle (the element of the sorted notConfirmed list  *)
(* at index startIndex mod n), for every start index; hence upNext is a    *)
(* member of scheduled or bonus.                                           *)
C24_UpNextFollowsRotation ==
    (op = "getUpNext" /\ NobodyPending /\ RotationList # <<>>) =>
        /\ ret = RunAt(RotationList, rotation, 0)
        /\ ret.id \in ReaderIds

(* C24 amended: in a group with no pending attending member and at least   *)
(* one non-confirmed eligible member, upNext is the first element of the   *)
(* sorted notConfirmed list whatever the start index; it is among this     *)
(* cycle's scheduled or bonus readers when startIndex mod n = 0, where it  *)
(* is also the first person the rotation draws.                            *)
C24_UpNextFirstSorted ==
    (op = "getUpNext" /\ NobodyPending /\ RotationList # <<>>) =>
        /\ ret = RotationList[1]
        /\ rotation % Len(RotationList) = 0 => ret.id \in ReaderIds

\* the rotation starts in the middle of a list of seven and draws six of
\* them; up next is the head of the list, the one the rotation leaves out
C24_Witness ==
    /\ op = "getUpNext"
    /\ NobodyPending
    /\ Len(RotationList) = 7
    /\ rotation = 1
    /\ ret = RotationList[1]
    /\ ret.id \notin ReaderIds

----------------------------------------------------------------------------
\* the ids of the participants of the cycle roster who answered yes
SaidYes == {participants[k].id : k \in {j \in 1..Len(participants) :
                                          participants[j].attendance = "yes"}}

\* the ids of everyone the admin page lists as a reader, this week or next
ListedReaders ==
    LET s == ret.readerSchedule
    IN  IdSet(s.thisWeek.main) \cup IdSet(s.thisWeek.bonus)
            \cup IdSet(s.nextWeek.main) \cup IdSet(s.nextWeek.bonus)
            \cup NamedIn(ret.groups)

(* C25: strict seating in the admin view.  For every cycle roster, the     *)
(* people placed in table or lounge in the latest admin page are exactly   *)
(* the participants whose attendance is 'yes'; participants with 'maybe',  *)
(* 'unknown' or 'no' are never seated and never listed as readers there.   *)
C25_StrictAdminSeating ==
    op = "admin" =>
        LET seats == IdsOf(ret.groups.table \o ret.groups.lounge)
        IN  /\ NoRepeat(seats)
            /\ Range(seats) = SaidYes
            /\ ListedReaders \subseteq SaidYes

\* ten people of whom one answered maybe: the nine others are split over
\* lounge and table and the readers are listed from them
C25_Witness ==
    /\ op = "admin"
    /\ Len(participants) = 10
    /\ participants[3].attendance = "maybe"
    /\ Len(ret.groups.lounge) = 5
    /\ Len(ret.groups.table) = 4
    /\ Len(ret.readerSchedule.thisWeek.main) = 4

----------------------------------------------------------------------------
\* a value is given for the field and it is not one of the allowed strings
OutsideEnum(v, allowed) ==
    v # JUndefined /\ ~(v.type = "string" /\ v.value \in allowed)

\* the request carries none of attendance, reading, reading_description
NoRecognisedField(body) ==
    \/ body.type # "object"
    \/ /\ body.attendance = JUndefined
       /\ body.reading = JUndefined
       /\ body.reading_description = JUndefined

\* the requests the claim says are refused
Refused(participantId, body) ==
    \/ participantId \notin {"1", "2"}
    \/ NoRecognisedField(body)
    \/ OutsideEnum(body.attendance, AttendanceStatus)
    \/ OutsideEnum(body.reading, ReadingStatus)

(* C26 as stated: a PATCH whose attendance or reading value is outside the *)
(* allowed enums, or whose participant id is not a finite number, or that  *)
(* carries no recognised field, is answered with status 400 and writes     *)
(* nothing to the stored record, even when other fields of the same        *)
(* request are valid; every accepted request also sets responded_at.       *)
C26_PatchValidation ==
    op = "PATCH" =>
        /\ Refused(ret.participantId, ret.body) =>
              /\ ret.status = 400
              /\ participants = ret.before
        /\ ret.status = 200 => participants[1].responded_at = JNumber(cycle)

----------------------------------------------------------------------------
(* C27 as stated: for any number of GET /api/cycles/current requests       *)
(* within the same week, including requests that interleave between the    *)
(* lookup and the insert, at most one cycle row with that week_start is    *)
(* ever created and every request returns the same cycle id.               *)
C27_GetOrCreate ==
    /\ \A k, m \in 1..Len(tally.cycles) :
          tally.cycles[k].week_start = tally.cycles[m].week_start => k = m
    /\ \A r, s \in ret.responses :
          r.week_start = s.week_start =>
              /\ r.status \in {200, 201}
              /\ r.id = s.id

----------------------------------------------------------------------------
\* the last request was a login with the admin user name and the configured
\* password
GoodLogin ==
    /\ op = "login"
    /\ ret.username = "admin"
    /\ tally.ADMIN_PASSWORD \notin {Undefined, ""}
    /\ ret.password = tally.ADMIN_PASSWORD

(* C28 as stated: over any sequence of login and logout requests, the      *)
(* admin cookie gets the value '1' only as the effect of a login whose     *)
(* username is 'admin' and whose password equals the configured            *)
(* ADMIN_PASSWORD; a login with a wrong username, a wrong password or with *)
(* ADMIN_PASSWORD unset leaves the cookie as it was; after a logout        *)
(* isAdminAuthed is false until the next successful login.                 *)
C28_AdminSession ==
    /\ (tally.gs_admin = "1" /\ ret.before # "1") => GoodLogin
    /\ (op = "login" /\ ~GoodLogin) => tally.gs_admin = ret.before
    /\ ret.loggedOut => ~isAdminAuthed(tally)

----------------------------------------------------------------------------
\* how many members of the list have has_reading
ReadersIn(list) == Len(SelectSeq(list, LAMBDA p : p.has_reading))

============================================================================
